---- MODULE Spec2Model ----
(***************************************************************************)
(* Session lifecycle and asynchronous bridging of flask_app.py.            *)
(*                                                                         *)
(* Request threads (Callers) run the Flask handlers send_code, verify_code *)
(* and submit_2fa.  Each handler sweeps expired sessions, then schedules   *)
(* one coroutine on the single background event loop (run_async) and waits *)
(* for its result with a timeout.  The loop runs one coroutine at a time   *)
(* and switches between coroutines only at an await.  The dictionary       *)
(* active_sessions is shared by the request threads and the loop thread.   *)
(*                                                                         *)
(* The Telethon client is external: every call on it ends with one of the  *)
(* outcomes the handlers distinguish, chosen nondeterministically.         *)
(***************************************************************************)
EXTENDS Integers, FiniteSets, Sequences, TLC

\* expire_old_sessions / verify_code: a record older than 600 s is expired.
TTL == 600

\* Bounds of the model.
NumCallers == 2     \* request threads that run concurrently
NumHandles == 2     \* distinct session ids that exist
NumSessions == 1    \* sessions begun when the request threads run concurrently
NumIsoCallers == 1  \* request threads when NumHandles sessions are begun
TickStep == 600     \* seconds that pass in one step of the clock
MaxAge == 1200      \* ages above this are not told apart (all exceed TTL)
MaxRetries == 2     \* rejected codes counted per session (the count stops here)

Callers == 1..NumCallers
Handles == 1..NumHandles
Sessions == 1..NumSessions
IsoCallers == 1..NumIsoCallers
ClientIds == 1..NumHandles

\* time.time().  Only differences between the clock and a stored created_at
\* are ever computed, so the present is taken as the origin: when time passes,
\* Tick moves every stored timestamp back instead of moving the clock forward.
now == 0

VARIABLES
    active_sessions,  \* session_id -> [client, created_at]
    issued,           \* session ids secrets.token_hex has returned so far
    nclients,         \* TelegramClient objects created so far
    conn,             \* client -> "new" | "connected" | "closed"
    stage,            \* client -> login stage of the remote account
    discPending,      \* clients with a disconnect() coroutine scheduled by cleanup_session
    req,              \* caller -> the handler it runs and its locals
    task,             \* caller -> the coroutine it scheduled on the loop
    credCount,        \* session_id -> responses that carried its session string
    failedBegin,      \* session ids of send_code requests that returned a failure
    rejected,         \* session_id -> sign_in calls that ended invalid or expired
    wrongPw,          \* session ids whose awaited 2FA password has been refused
    known             \* session ids a send_code response has given to a client

vars == <<active_sessions, issued, nclients, conn, stage, discPending, req, task,
          credCount, failedBegin, rejected, wrongPw, known>>

----------------------------------------------------------------------------
\* Responses (the dictionaries passed to jsonify).

Ok(sessionId, sessionString) ==
    [success |-> TRUE, error |-> "", session_id |-> sessionId, session_string |-> sessionString]

Err(msg) ==
    [success |-> FALSE, error |-> msg, session_id |-> 0, session_string |-> 0]

NoResult == [success |-> FALSE, error |-> "", session_id |-> 0, session_string |-> 0]

\* An exception that no except clause of the handler catches: Flask answers with
\* its own 500 page instead of one of the dictionaries above.
Unhandled(exc) ==
    [success |-> FALSE, error |-> exc, session_id |-> 0, session_string |-> 0]

RuntimeError == "RuntimeError: dictionary changed size during iteration"

MsgStartOver == "Session expired. Please start over."
MsgNewCode == "Session expired. Please request a new code."
MsgFields == "All fields are required"
MsgNotNumber == "API ID must be a number"
MsgConnect == "Failed to connect: {e}"
MsgApiId == "Invalid API ID"
MsgPhone == "Invalid phone number"
MsgSendCode == "Failed to send code: {e}"
Msg2FARequired == "2FA password required"
MsgInvalidCode == "Invalid verification code"
MsgCodeExpired == "Verification code expired. Please request a new code."
MsgVerifyFailed == "Verification failed: {e}"
MsgExportCode == "Failed to export session string: {e}"
MsgExport2FA == "Failed to export session: {e}"
MsgInvalid2FA == "Invalid 2FA password"
Msg2FAFailed == "2FA failed: {e}"

----------------------------------------------------------------------------
\* Locals of a handler and of a coroutine.

IdleReq ==
    [pc |-> "idle", kind |-> "none", sid |-> 0, seen |-> 0, expired |-> {}, cur |-> 0,
     created_at |-> 0, res |-> NoResult, client |-> 0, afterCred |-> FALSE]

NoTask ==
    [pos |-> "none", kind |-> "none", sid |-> 0, client |-> 0, res |-> NoResult]

NewTask(k, h, cl) ==
    [pos |-> "ready", kind |-> k, sid |-> h, client |-> cl, res |-> NoResult]

\* A cleanup that forgets the del.
RemoveKept(store, h) == store

Remove(store, h) == [s \in DOMAIN store \ {h} |-> store[s]]

Put(store, h, rec) == [s \in DOMAIN store \cup {h} |-> IF s = h THEN rec ELSE store[s]]

Init ==
    /\ active_sessions = << >>
    /\ issued = {}
    /\ nclients = 0
    /\ conn = [c \in ClientIds |-> "new"]
    /\ stage = [c \in ClientIds |-> "none"]
    /\ discPending = {}
    /\ req = [c \in Callers |-> IdleReq]
    /\ task = [c \in Callers |-> NoTask]
    /\ credCount = [h \in Handles |-> 0]
    /\ failedBegin = {}
    /\ rejected = [h \in Handles |-> 0]
    /\ wrongPw = {}
    /\ known = {}

----------------------------------------------------------------------------
\* The clock.

\* A timestamp after TickStep more seconds have passed.
Shift(t) == IF t - TickStep < now - MaxAge THEN now - MaxAge ELSE t - TickStep

\* The timestamps a handler holds: the record read by verify_code.
ShiftReq(r) == IF r.pc = "ttlcheck" THEN [r EXCEPT !.created_at = Shift(@)] ELSE r

Tick ==
    /\ \/ \E h \in DOMAIN active_sessions : active_sessions[h].created_at > now - MaxAge
       \/ \E c \in Callers : req[c].pc = "ttlcheck" /\ req[c].created_at > now - MaxAge
    /\ active_sessions' = [h \in DOMAIN active_sessions |->
                             [active_sessions[h] EXCEPT !.created_at = Shift(@)]]
    /\ req' = [c \in Callers |-> ShiftReq(req[c])]
    /\ UNCHANGED <<issued, nclients, conn, stage, discPending, task,
                   credCount, failedBegin, rejected, wrongPw, known>>

----------------------------------------------------------------------------
\* Request threads: expire_old_sessions and cleanup_session.

IsExpired(created_at, t) == t - created_at > TTL

\* A sweep that finds no record expired.
ExpiredIdsNone(store, t) == {}

\* A sweep that takes every record for expired.
ExpiredIdsAll(store, t) == DOMAIN store

\* expire_old_sessions, the list comprehension.
ExpiredIds(store, t) == {s \in DOMAIN store : IsExpired(store[s].created_at, t)}

\* The handler is past expire_old_sessions().
AtBody(c) == req[c].pc = "sweep" /\ req[c].expired = {}

\* Request threads are interchangeable: a request is served by the first free one.
Busy(c) == req[c].pc # "idle" \/ task[c].pos # "none"

\* A request arrives: the handler starts with expire_old_sessions(), whose
\* comprehension creates an iterator over active_sessions.items(); the iterator
\* remembers the size of the dictionary.
\* h is the session_id of the request body (0 for send_code, which has none,
\* and for a verify_code or submit_2fa body that lacks a field): clients name a
\* session id they were given or one that does not exist, they do not guess the
\* token of a send_code that has not answered.  afterCred notes that the
\* session string of h had already been returned by then.
StartRequest(c, k, h) ==
    /\ req[c].pc = "idle"
    /\ task[c].pos = "none"
    /\ \A d \in Callers : d < c => Busy(d)
    /\ h \in issued => h \in known
    /\ req' = [req EXCEPT ![c] =
                 [IdleReq EXCEPT !.pc = "iter", !.kind = k, !.sid = h,
                                 !.seen = Cardinality(DOMAIN active_sessions),
                                 !.afterCred = (h # 0 /\ credCount[h] > 0)]]
    /\ UNCHANGED <<active_sessions, issued, nclients, conn, stage, discPending, task,
                   credCount, failedBegin, rejected, wrongPw, known>>

\* The iterator has run into a dictionary of another size than it started on.
ChangedSize(store, seen) == Cardinality(DOMAIN store) # seen

\* expire_old_sessions, the comprehension runs: the loop thread or another
\* request thread may have stored or deleted a record since the iterator was
\* created, and then the iterator raises RuntimeError, outside the try block of
\* the handler.  Otherwise the expired ids are collected.
SweepScan(c) ==
    /\ req[c].pc = "iter"
    /\ IF ChangedSize(active_sessions, req[c].seen)
       THEN req' = [req EXCEPT ![c].pc = "done", ![c].seen = 0,
                               ![c].res = Unhandled(RuntimeError)]
       ELSE req' = [req EXCEPT ![c].pc = "sweep", ![c].seen = 0,
                               ![c].expired = ExpiredIds(active_sessions, now)]
    /\ UNCHANGED <<active_sessions, issued, nclients, conn, stage, discPending, task,
                   credCount, failedBegin, rejected, wrongPw, known>>

\* cleanup_session called from a request thread, up to run_async(client.disconnect()):
\* the disconnect coroutine is scheduled on the loop when the record is there.
ScheduledBy(store, h, pending) ==
    IF h \in DOMAIN store THEN pending \cup {store[h].client} ELSE pending

\* expire_old_sessions: the next expired id, cleanup_session up to the wait.
SweepCleanup(c) ==
    /\ req[c].pc = "sweep"
    /\ \E s \in req[c].expired :
         /\ discPending' = ScheduledBy(active_sessions, s, discPending)
         /\ req' = IF s \in DOMAIN active_sessions
                   THEN [req EXCEPT ![c].pc = "sweep_del", ![c].cur = s]
                   ELSE [req EXCEPT ![c].expired = @ \ {s}]
    /\ UNCHANGED <<active_sessions, issued, nclients, conn, stage, task,
                   credCount, failedBegin, rejected, wrongPw, known>>

KeyError == "KeyError"

\* A del without the except clause: a missing key ends the request.
CleanupDeleteRaising(c) ==
    /\ req[c].pc \in {"sweep_del", "cleanup_del"}
    /\ active_sessions' = Remove(active_sessions, req[c].cur)
    /\ req' = IF req[c].cur \notin DOMAIN active_sessions
              THEN [req EXCEPT ![c].pc = "done", ![c].expired = {}, ![c].cur = 0,
                               ![c].res = Unhandled(KeyError)]
              ELSE IF req[c].pc = "sweep_del"
              THEN [req EXCEPT ![c].pc = "sweep", ![c].expired = @ \ {req[c].cur},
                               ![c].cur = 0]
              ELSE [req EXCEPT ![c].pc = "done", ![c].cur = 0]
    /\ UNCHANGED <<issued, nclients, conn, stage, discPending, task,
                   credCount, failedBegin, rejected, wrongPw, known>>

\* cleanup_session in a request thread after run_async returned, raised or
\* timed out (20 s): del active_sessions[session_id], KeyError ignored.
CleanupDelete(c) ==
    /\ req[c].pc \in {"sweep_del", "cleanup_del"}
    /\ active_sessions' = Remove(active_sessions, req[c].cur)
    /\ req' = IF req[c].pc = "sweep_del"
              THEN [req EXCEPT ![c].pc = "sweep", ![c].expired = @ \ {req[c].cur},
                               ![c].cur = 0]
              ELSE [req EXCEPT ![c].pc = "done", ![c].cur = 0]
    /\ UNCHANGED <<issued, nclients, conn, stage, discPending, task,
                   credCount, failedBegin, rejected, wrongPw, known>>

----------------------------------------------------------------------------
\* send_code.

\* The request body fails validation: no session id is generated.
BeginInvalid(c, msg) ==
    /\ AtBody(c)
    /\ req[c].kind = "begin"
    /\ req' = [req EXCEPT ![c].pc = "done", ![c].res = Err(msg)]
    /\ UNCHANGED <<active_sessions, issued, nclients, conn, stage, discPending, task,
                   credCount, failedBegin, rejected, wrongPw, known>>

\* secrets.token_hex(16), then run_async(async_send_code(...)).  The token is
\* one that was never returned before and that no request in progress names.
BeginDispatch(c, h) ==
    /\ AtBody(c)
    /\ req[c].kind = "begin"
    /\ h \notin issued
    /\ \A d \in Callers : req[d].sid # h
    /\ nclients < NumHandles
    /\ issued' = issued \cup {h}
    /\ nclients' = nclients + 1
    /\ req' = [req EXCEPT ![c].pc = "wait", ![c].sid = h]
    /\ task' = [task EXCEPT ![c] = NewTask("begin", h, nclients + 1)]
    /\ UNCHANGED <<active_sessions, conn, stage, discPending,
                   credCount, failedBegin, rejected, wrongPw, known>>

\* secrets.token_hex(16) returns a token it has returned before: send_code does
\* not look the token up and dispatches async_send_code as for any other.
BeginCollision(c, h) ==
    /\ AtBody(c)
    /\ req[c].kind = "begin"
    /\ h \in issued
    /\ nclients < NumHandles
    /\ nclients' = nclients + 1
    /\ req' = [req EXCEPT ![c].pc = "wait", ![c].sid = h]
    /\ task' = [task EXCEPT ![c] = NewTask("begin", h, nclients + 1)]
    /\ UNCHANGED <<active_sessions, issued, conn, stage, discPending,
                   credCount, failedBegin, rejected, wrongPw, known>>

----------------------------------------------------------------------------
\* verify_code and submit_2fa.

\* session_id or the code/password is missing from the request body
\* (such a request is started with session id 0).
MissingFields(c) ==
    /\ AtBody(c)
    /\ req[c].kind \in {"verify", "submit"}
    /\ req[c].sid = 0
    /\ req' = [req EXCEPT ![c].pc = "done", ![c].res = Err(MsgFields)]
    /\ UNCHANGED <<active_sessions, issued, nclients, conn, stage, discPending, task,
                   credCount, failedBegin, rejected, wrongPw, known>>

\* session = active_sessions.get(session_id); submit_2fa dispatches at once.
Lookup(c) ==
    /\ AtBody(c)
    /\ req[c].kind \in {"verify", "submit"}
    /\ req[c].sid # 0
    /\ LET h == req[c].sid
           found == h \in DOMAIN active_sessions
       IN  IF ~found
           THEN /\ req' = [req EXCEPT ![c].pc = "done", ![c].res = Err(MsgStartOver)]
                /\ UNCHANGED task
           ELSE IF req[c].kind = "verify"
           THEN /\ req' = [req EXCEPT ![c].pc = "ttlcheck",
                                      ![c].created_at = active_sessions[h].created_at]
                /\ UNCHANGED task
           ELSE /\ req' = [req EXCEPT ![c].pc = "wait"]
                /\ task' = [task EXCEPT ![c] = NewTask("submit", h, 0)]
    /\ UNCHANGED <<active_sessions, issued, nclients, conn, stage, discPending,
                   credCount, failedBegin, rejected, wrongPw, known>>

\* verify_code: the age check on the record just read, then either
\* cleanup_session or run_async(async_verify_code(...)).
TtlCheck(c) ==
    /\ req[c].pc = "ttlcheck"
    /\ IF IsExpired(req[c].created_at, now)
       THEN /\ req' = [req EXCEPT ![c].res = Err(MsgNewCode), ![c].cur = req[c].sid,
                                  ![c].pc = "cleanup_get", ![c].created_at = 0]
            /\ UNCHANGED task
       ELSE /\ req' = [req EXCEPT ![c].pc = "wait", ![c].created_at = 0]
            /\ task' = [task EXCEPT ![c] = NewTask("verify", req[c].sid, 0)]
    /\ UNCHANGED <<active_sessions, issued, nclients, conn, stage, discPending,
                   credCount, failedBegin, rejected, wrongPw, known>>

\* cleanup_session called by verify_code (expired record) or by send_code
\* (run_async raised): the lookup and run_async(client.disconnect()).
CleanupLookup(c) ==
    /\ req[c].pc = "cleanup_get"
    /\ discPending' = ScheduledBy(active_sessions, req[c].cur, discPending)
    /\ req' = IF req[c].cur \in DOMAIN active_sessions
              THEN [req EXCEPT ![c].pc = "cleanup_del"]
              ELSE [req EXCEPT ![c].pc = "done", ![c].cur = 0]
    /\ UNCHANGED <<active_sessions, issued, nclients, conn, stage, task,
                   credCount, failedBegin, rejected, wrongPw, known>>

----------------------------------------------------------------------------
\* run_async as the request thread sees it, and the response.

\* future.result(timeout=60) returns what the coroutine returned.
GetResult(c) ==
    /\ req[c].pc = "wait"
    /\ task[c].pos = "done"
    /\ req' = [req EXCEPT ![c].pc = "done", ![c].res = task[c].res,
                          ![c].client = task[c].client]
    /\ task' = [task EXCEPT ![c] = NoTask]
    /\ UNCHANGED <<active_sessions, issued, nclients, conn, stage, discPending,
                   credCount, failedBegin, rejected, wrongPw, known>>

\* The message of the handler's except clause around run_async.
TimeoutMsg(k) ==
    IF k = "begin" THEN MsgSendCode
    ELSE IF k = "verify" THEN MsgVerifyFailed ELSE Msg2FAFailed

\* Every handler cleans the session up when the wait times out.
TimeoutEvicting(c) ==
    /\ req[c].pc = "wait"
    /\ task[c].pos # "done"
    /\ req' = [req EXCEPT ![c].res = Err(TimeoutMsg(req[c].kind)),
                          ![c].cur = req[c].sid, ![c].pc = "cleanup_get"]
    /\ UNCHANGED <<active_sessions, issued, nclients, conn, stage, discPending, task,
                   credCount, failedBegin, rejected, wrongPw, known>>

\* future.result(timeout=60) raises TimeoutError: the coroutine is not cancelled.
\* send_code then calls cleanup_session(session_id); the other two only answer.
Timeout(c) ==
    /\ req[c].pc = "wait"
    /\ task[c].pos # "done"
    /\ req' = [req EXCEPT ![c].res = Err(TimeoutMsg(req[c].kind)),
                          ![c].cur = IF req[c].kind = "begin" THEN req[c].sid ELSE 0,
                          ![c].pc = IF req[c].kind = "begin" THEN "cleanup_get" ELSE "done"]
    /\ UNCHANGED <<active_sessions, issued, nclients, conn, stage, discPending, task,
                   credCount, failedBegin, rejected, wrongPw, known>>

\* The result of a coroutine whose caller has timed out is dropped.
DropResult(c) ==
    /\ req[c].pc # "wait"
    /\ task[c].pos = "done"
    /\ task' = [task EXCEPT ![c] = NoTask]
    /\ UNCHANGED <<active_sessions, issued, nclients, conn, stage, discPending, req,
                   credCount, failedBegin, rejected, wrongPw, known>>

CarriesCredential(r) == r.success /\ r.session_string # 0

\* return jsonify(...): the response leaves the handler.
Respond(c) ==
    /\ req[c].pc = "done"
    /\ credCount' = IF CarriesCredential(req[c].res)
                    THEN [credCount EXCEPT ![req[c].sid] = @ + 1] ELSE credCount
    /\ failedBegin' = IF req[c].kind = "begin" /\ ~req[c].res.success /\ req[c].sid # 0
                      THEN failedBegin \cup {req[c].sid} ELSE failedBegin
    /\ known' = IF req[c].res.success /\ req[c].res.session_id # 0
                 THEN known \cup {req[c].res.session_id} ELSE known
    /\ req' = [req EXCEPT ![c] = IdleReq]
    /\ UNCHANGED <<active_sessions, issued, nclients, conn, stage, discPending, task,
                   rejected, wrongPw>>

----------------------------------------------------------------------------
\* The background loop.  A coroutine runs from one await to the next without
\* interruption by another coroutine; request threads run in between.

\* cleanup_session called inside a coroutine blocks the loop thread in
\* future.result(timeout=20): nothing else runs on the loop meanwhile.
WorkerFree == \A c \in Callers : task[c].pos # "blocked"

\* async_send_code up to await client.connect().
BeginStart(c) ==
    /\ WorkerFree
    /\ task[c].pos = "ready"
    /\ task[c].kind = "begin"
    /\ task' = [task EXCEPT ![c].pos = "await_connect"]
    /\ UNCHANGED <<active_sessions, issued, nclients, conn, stage, discPending, req,
                   credCount, failedBegin, rejected, wrongPw, known>>

\* connect() returns or raises; on success on to await client.send_code_request(phone).
ConnectDone(c, ok) ==
    /\ WorkerFree
    /\ task[c].pos = "await_connect"
    /\ IF ok
       THEN /\ conn' = [conn EXCEPT ![task[c].client] = "connected"]
            /\ task' = [task EXCEPT ![c].pos = "await_sendcode"]
       ELSE /\ task' = [task EXCEPT ![c].pos = "await_disc", ![c].res = Err(MsgConnect)]
            /\ UNCHANGED conn
    /\ UNCHANGED <<active_sessions, issued, nclients, stage, discPending, req,
                   credCount, failedBegin, rejected, wrongPw, known>>

SendCodeOutcomes == {"ok", "ApiIdInvalidError", "PhoneNumberInvalidError", "error"}

\* The except clauses around send_code_request.
SendCodeError(out) ==
    IF out = "ApiIdInvalidError" THEN Err(MsgApiId)
    ELSE IF out = "PhoneNumberInvalidError" THEN Err(MsgPhone)
    ELSE Err(MsgSendCode)

\* async_send_code: the record stored after a successful send_code_request.
NewRecord(cl, t) == [client |-> cl, created_at |-> t]

\* send_code_request returns or raises: store the record, or disconnect.
SendCodeDone(c, out) ==
    /\ WorkerFree
    /\ task[c].pos = "await_sendcode"
    /\ IF out = "ok"
       THEN /\ stage' = [stage EXCEPT ![task[c].client] = "codeSent"]
            /\ active_sessions' = Put(active_sessions, task[c].sid,
                                      NewRecord(task[c].client, now))
            /\ task' = [task EXCEPT ![c].pos = "done", ![c].res = Ok(task[c].sid, 0)]
       ELSE /\ task' = [task EXCEPT ![c].pos = "await_disc", ![c].res = SendCodeError(out)]
            /\ UNCHANGED <<stage, active_sessions>>
    /\ UNCHANGED <<issued, nclients, conn, discPending, req,
                   credCount, failedBegin, rejected, wrongPw, known>>

\* async_verify_code / async_submit_2fa up to await client.sign_in(...).
SignInStart(c) ==
    /\ WorkerFree
    /\ task[c].pos = "ready"
    /\ task[c].kind \in {"verify", "submit"}
    /\ LET h == task[c].sid IN
       IF h \notin DOMAIN active_sessions
       THEN task' = [task EXCEPT ![c].pos = "done", ![c].res = Err(MsgStartOver)]
       ELSE task' = [task EXCEPT ![c].pos = "await_signin",
                                    ![c].client = active_sessions[h].client]
    /\ UNCHANGED <<active_sessions, issued, nclients, conn, stage, discPending, req,
                   credCount, failedBegin, rejected, wrongPw, known>>

\* What the remote side can answer to sign_in(phone, code).
CodeOutcomes(cn, st) ==
    IF cn # "connected" THEN {"error"}
    ELSE IF st = "codeSent" THEN {"ok", "needpw", "invalid", "expired", "error"}
    ELSE IF st = "needPassword" THEN {"needpw", "invalid", "expired", "error"}
    ELSE {"ok", "error"}

\* What the remote side can answer to sign_in(password=...).
PasswordOutcomes(cn, st) ==
    IF cn # "connected" THEN {"error"}
    ELSE IF st \in {"needPassword", "authorized"} THEN {"ok", "error"}
    ELSE {"error"}

SignInOutcomes(k, cn, st) ==
    IF k = "verify" THEN CodeOutcomes(cn, st) ELSE PasswordOutcomes(cn, st)

\* The except clauses around sign_in: the response of each failure.
SignInError(k, out) ==
    IF k = "submit" THEN Err(MsgInvalid2FA)
    ELSE IF out = "needpw" THEN Err(Msg2FARequired)
    ELSE IF out = "invalid" THEN Err(MsgInvalidCode)
    ELSE IF out = "expired" THEN Err(MsgCodeExpired)
    ELSE Err(MsgVerifyFailed)

\* StringSession.save(client.session) returns the string or raises.
ExportResult(k, cl, exportOk) ==
    IF exportOk THEN Ok(0, cl)
    ELSE IF k = "verify" THEN Err(MsgExportCode) ELSE Err(MsgExport2FA)

\* The login stage of the account after sign_in ended with out.
StageAfter(st, out) ==
    IF out = "ok" THEN "authorized"
    ELSE IF out = "needpw" THEN "needPassword"
    ELSE st

\* Any failure of sign_in tears the session down.
AfterSignInDropping(out) == IF out \in {"ok", "error"} THEN "await_disc" ELSE "done"

\* SessionPasswordNeededError treated as the end of the session.
AfterSignInClosing(out) == IF out \in {"ok", "needpw"} THEN "await_disc" ELSE "done"

\* An invalid code treated like a success: on to the disconnect and cleanup.
AfterSignInEvicting(out) == IF out \in {"ok", "invalid"} THEN "await_disc" ELSE "done"

\* Where the coroutine goes after sign_in: every except clause returns, the
\* success path falls through to the export and await client.disconnect().
AfterSignIn(out) == IF out = "ok" THEN "await_disc" ELSE "done"

\* A sliding expiry: every attempt restarts the age of the record.
AfterAttemptRefreshed(store, h) ==
    IF h \in DOMAIN store
    THEN [s \in DOMAIN store |->
            IF s = h THEN [store[s] EXCEPT !.created_at = now] ELSE store[s]]
    ELSE store

\* The store after sign_in has returned or raised: neither the success path
\* nor an except clause writes to the record.
AfterAttempt(store, h) == store

\* sign_in returns or raises.  A failure is answered at once; on success the
\* session string is exported and the coroutine awaits client.disconnect().
SignInDone(c, out, exportOk) ==
    /\ WorkerFree
    /\ task[c].pos = "await_signin"
    /\ LET cl == task[c].client
           k == task[c].kind
       IN  /\ out \in SignInOutcomes(k, conn[cl], stage[cl])
           /\ stage' = [stage EXCEPT ![cl] = StageAfter(@, out)]
           /\ IF out = "ok"
              THEN task' = [task EXCEPT ![c].pos = AfterSignIn(out),
                                        ![c].res = ExportResult(k, cl, exportOk)]
              ELSE /\ exportOk
                   /\ task' = [task EXCEPT ![c].pos = AfterSignIn(out),
                                           ![c].res = SignInError(k, out)]
    /\ rejected' = IF out \in {"invalid", "expired"} /\ rejected[task[c].sid] < MaxRetries
                    THEN [rejected EXCEPT ![task[c].sid] = @ + 1] ELSE rejected
    /\ wrongPw' = IF task[c].kind = "submit" /\ out = "error"
                      /\ conn[task[c].client] = "connected"
                      /\ stage[task[c].client] = "needPassword"
                   THEN wrongPw \cup {task[c].sid} ELSE wrongPw
    /\ active_sessions' = AfterAttempt(active_sessions, task[c].sid)
    /\ UNCHANGED <<issued, nclients, conn, discPending, req,
                   credCount, failedBegin, known>>

\* A disconnect() attempt: it closes the connection or raises and leaves it.
AfterDisconnect(cn, ok) == IF ok THEN "closed" ELSE cn

\* await client.disconnect() returns or raises (the exception is swallowed).
\* async_send_code then returns its error; the other two coroutines call
\* cleanup_session(session_id) on the loop thread: the lookup, then
\* run_async(client.disconnect(), timeout=20) waits for a coroutine that only
\* this blocked thread could run.
DisconnectDone(c, ok) ==
    /\ WorkerFree
    /\ task[c].pos = "await_disc"
    /\ conn' = [conn EXCEPT ![task[c].client] = AfterDisconnect(@, ok)]
    /\ IF task[c].kind = "begin"
       THEN /\ task' = [task EXCEPT ![c].pos = "done"]
            /\ UNCHANGED discPending
       ELSE /\ discPending' = ScheduledBy(active_sessions, task[c].sid, discPending)
            /\ task' = [task EXCEPT ![c].pos =
                          IF task[c].sid \in DOMAIN active_sessions
                          THEN "blocked" ELSE "done"]
    /\ UNCHANGED <<active_sessions, issued, nclients, stage, req,
                   credCount, failedBegin, rejected, wrongPw, known>>

\* cleanup_session on the loop thread: future.result raises TimeoutError after
\* 20 s, the warning is logged, the record is deleted and the coroutine returns.
CleanupTimeout(c) ==
    /\ task[c].pos = "blocked"
    /\ active_sessions' = Remove(active_sessions, task[c].sid)
    /\ task' = [task EXCEPT ![c].pos = "done"]
    /\ UNCHANGED <<issued, nclients, conn, stage, discPending, req,
                   credCount, failedBegin, rejected, wrongPw, known>>

\* A disconnect() coroutine scheduled by cleanup_session runs on the loop.
RunDisconnect(cl, ok) ==
    /\ WorkerFree
    /\ cl \in discPending
    /\ discPending' = discPending \ {cl}
    /\ conn' = [conn EXCEPT ![cl] = AfterDisconnect(@, ok)]
    /\ UNCHANGED <<active_sessions, issued, nclients, stage, req, task,
                   credCount, failedBegin, rejected, wrongPw, known>>

----------------------------------------------------------------------------
\* The steps of the request threads cs and of the loop, with session ids hs.
Step(cs, hs) ==
    \/ Tick
    \/ \E c \in cs : StartRequest(c, "begin", 0)
    \/ \E c \in cs, k \in {"verify", "submit"}, h \in hs \cup {0} :
          StartRequest(c, k, h)
    \/ \E c \in cs : SweepScan(c)
    \/ \E c \in cs : SweepCleanup(c)
    \/ \E c \in cs : CleanupDelete(c)
    \/ \E c \in cs, msg \in {MsgFields, MsgNotNumber} : BeginInvalid(c, msg)
    \/ \E c \in cs, h \in hs : BeginDispatch(c, h)
    \/ \E c \in cs : MissingFields(c)
    \/ \E c \in cs : Lookup(c)
    \/ \E c \in cs : TtlCheck(c)
    \/ \E c \in cs : CleanupLookup(c)
    \/ \E c \in cs : GetResult(c)
    \/ \E c \in cs : Timeout(c)
    \/ \E c \in cs : DropResult(c)
    \/ \E c \in cs : Respond(c)
    \/ \E c \in cs : BeginStart(c)
    \/ \E c \in cs, ok \in BOOLEAN : ConnectDone(c, ok)
    \/ \E c \in cs, out \in SendCodeOutcomes : SendCodeDone(c, out)
    \/ \E c \in cs : SignInStart(c)
    \/ \E c \in cs, out \in {"ok", "needpw", "invalid", "expired", "error"},
          exportOk \in BOOLEAN : SignInDone(c, out, exportOk)
    \/ \E c \in cs, ok \in BOOLEAN : DisconnectDone(c, ok)
    \/ \E c \in cs : CleanupTimeout(c)
    \/ \E cl \in ClientIds, ok \in BOOLEAN : RunDisconnect(cl, ok)

\* Concurrent request threads on the sessions of Sessions.
Next == Step(Callers, Sessions)

Spec == Init /\ [][Next]_vars

\* Every session id of Handles, requests from the threads of IsoCallers.
NextIso == Step(IsoCallers, Handles)

SpecIso == Init /\ [][NextIso]_vars

\* The steps of the request thread c.
CallerStep(c) ==
    \/ StartRequest(c, "begin", 0)
    \/ \E k \in {"verify", "submit"}, h \in Sessions \cup {0} : StartRequest(c, k, h)
    \/ SweepScan(c)
    \/ SweepCleanup(c)
    \/ CleanupDelete(c)
    \/ \E msg \in {MsgFields, MsgNotNumber} : BeginInvalid(c, msg)
    \/ \E h \in Sessions : BeginDispatch(c, h)
    \/ MissingFields(c)
    \/ Lookup(c)
    \/ TtlCheck(c)
    \/ CleanupLookup(c)
    \/ GetResult(c)
    \/ Timeout(c)
    \/ Respond(c)

\* The steps of the loop thread on the coroutine that c scheduled.
TaskStep(c) ==
    \/ BeginStart(c)
    \/ \E ok \in BOOLEAN : ConnectDone(c, ok)
    \/ \E out \in SendCodeOutcomes : SendCodeDone(c, out)
    \/ SignInStart(c)
    \/ \E out \in {"ok", "needpw", "invalid", "expired", "error"},
          exportOk \in BOOLEAN : SignInDone(c, out, exportOk)
    \/ \E ok \in BOOLEAN : DisconnectDone(c, ok)
    \/ CleanupTimeout(c)
    \/ DropResult(c)

\* Time passes, and the threads do not all stop: while a request thread or the
\* loop can take a step, one of them does (a free thread serves a next
\* request, a wait ends with the result or with the timeout, a call on the
\* client returns or raises).
Fairness ==
    /\ WF_vars(Tick)
    /\ WF_vars(\/ \E c \in Callers : CallerStep(c)
               \/ \E c \in Callers : TaskStep(c)
               \/ \E cl \in ClientIds, ok \in BOOLEAN : RunDisconnect(cl, ok))

SpecLive == Init /\ [][Next]_vars /\ Fairness

\* The session ids of Sessions, drawn again by later send_code requests.
NextColl ==
    \/ Step(IsoCallers, Sessions)
    \/ \E c \in IsoCallers, h \in Sessions : BeginCollision(c, h)

SpecColl == Init /\ [][NextColl]_vars

----------------------------------------------------------------------------
\* The shape of the state.

Positions ==
    {"none", "ready", "await_connect", "await_sendcode", "await_signin",
     "await_disc", "blocked", "done"}

TypeOK ==
    /\ DOMAIN active_sessions \subseteq Handles
    /\ \A h \in DOMAIN active_sessions :
         /\ active_sessions[h].client \in ClientIds
         /\ active_sessions[h].created_at \in (now - MaxAge)..now
    /\ issued \subseteq Handles
    /\ nclients \in 0..NumHandles
    /\ conn \in [ClientIds -> {"new", "connected", "closed"}]
    /\ stage \in [ClientIds -> {"none", "codeSent", "needPassword", "authorized"}]
    /\ discPending \subseteq ClientIds
    /\ \A c \in Callers :
         /\ req[c].pc \in {"idle", "iter", "sweep", "sweep_del", "ttlcheck", "cleanup_get",
                           "cleanup_del", "wait", "done"}
         /\ req[c].kind \in {"none", "begin", "verify", "submit"}
         /\ task[c].pos \in Positions
    /\ credCount \in [Handles -> 0..NumCallers]
    /\ failedBegin \subseteq Handles
    /\ rejected \in [Handles -> 0..MaxRetries]
    /\ wrongPw \subseteq Handles
    /\ known \subseteq issued

----------------------------------------------------------------------------
\* Properties.

\* The coroutines suspended in a call on client cl.
InFlight(cl) ==
    {c \in Callers : /\ task[c].pos \in {"await_connect", "await_sendcode",
                                          "await_signin", "await_disc"}
                     /\ task[c].client = cl}

\* C1: at most one protocol operation is in flight on a session's client at any
\* instant; two concurrent verify_code requests for one handle are serialized.
C1_OneInFlight == \A cl \in ClientIds : Cardinality(InFlight(cl)) <= 1

\* The clients that records of the store refer to.
StoredClients == {active_sessions[h].client : h \in DOMAIN active_sessions}

\* C2: a handle is in the store if and only if its client is connected, in
\* every reachable state (the steps inside begin, cleanup and export included).
C2_StoreIffConnected ==
    \A cl \in ClientIds : (cl \in StoredClients) <=> (conn[cl] = "connected")

\* The edges of the transition graph, over the login stage of a client:
\* none = AwaitingCode, codeSent = AwaitingVerification,
\* needPassword = AwaitingPassword, authorized = Completed.
LegalEdges ==
    {<<"none", "codeSent">>, <<"codeSent", "authorized">>,
     <<"codeSent", "needPassword">>, <<"needPassword", "authorized">>}

\* C3: the state of a session changes only along the edges of the graph, and
\* sign_in(password) is called on a client only when its session awaits the
\* password.
C3_LegalTransitions ==
    [][/\ \A cl \in ClientIds :
            stage'[cl] # stage[cl] => <<stage[cl], stage'[cl]>> \in LegalEdges
       /\ \A c \in Callers :
            (task[c].kind = "submit" /\ task[c].pos = "ready"
                /\ task'[c].pos = "await_signin")
            => stage[task'[c].client] = "needPassword"]_vars

\* C4: the session string of a session is returned exactly once: no handle has
\* two responses that carry it, and an exported string always has a caller
\* waiting to receive it.
C4_ExactlyOnce ==
    /\ \A h \in Handles : credCount[h] <= 1
    /\ \A c \in Callers :
         (task[c].pos = "done" /\ CarriesCredential(task[c].res))
         => req[c].pc = "wait"

\* C5: a verify_code or submit_2fa response that reports success carries a
\* non-empty session string and its handle is no longer in the store; once the
\* session string of a handle has been returned the handle never comes back,
\* and every request on that handle that arrives afterwards finds no record:
\* it is not dispatched to the loop and the answer of its handler is
\* "Session expired. Please start over." (a request whose sweep raised gets no
\* answer from its handler at all).
C5_RoundTrip ==
    /\ \A c \in Callers :
         (req[c].pc = "done" /\ req[c].kind \in {"verify", "submit"} /\ req[c].res.success)
         => /\ req[c].res.session_string # 0
            /\ req[c].sid \notin DOMAIN active_sessions
    /\ \A h \in Handles : credCount[h] > 0 => h \notin DOMAIN active_sessions
    /\ \A c \in Callers :
         req[c].afterCred
         => /\ req[c].pc \notin {"ttlcheck", "wait"}
            /\ (req[c].pc = "done" /\ req[c].res # Unhandled(RuntimeError))
               => req[c].res = Err(MsgStartOver)

\* C5 happens: the session string of a handle has been returned and a
\* verify_code that arrived afterwards has been answered.
C5_Witness ==
    \E c \in Callers :
        /\ req[c].pc = "done"
        /\ req[c].kind = "verify"
        /\ req[c].afterCred
        /\ credCount[req[c].sid] = 1

\* C6: when a response carries a session string, the client of the session is
\* disconnected, whatever the disconnect attempts did.
C6_DisconnectedAtReturn ==
    \A c \in Callers :
        (req[c].pc = "done" /\ CarriesCredential(req[c].res))
        => conn[req[c].client] = "closed"

\* C7: a request for a handle whose record is present but older than TTL gets
\* the response of an absent handle, "Session expired. Please start over.",
\* also when the TTL is crossed between the sweep and the lookup.
C7_Indistinguishable ==
    [][\A c \in Callers :
         /\ (req[c].pc = "ttlcheck" /\ IsExpired(req[c].created_at, now)
                /\ req'[c].pc # "ttlcheck")
            => req'[c].res = Err(MsgStartOver)
         /\ (AtBody(c) /\ req[c].kind = "submit" /\ req[c].sid \in DOMAIN active_sessions
                /\ IsExpired(active_sessions[req[c].sid].created_at, now)
                /\ req'[c] # req[c])
            => (req'[c].pc = "done" /\ req'[c].res = Err(MsgStartOver))]_vars

\* C8: no sign_in is started on the client of a record older than TTL.
C8_NoUseAfterTTL ==
    [][\A c \in Callers :
         (task[c].pos = "ready" /\ task'[c].pos = "await_signin")
         => ~IsExpired(active_sessions[task[c].sid].created_at, now)]_vars

\* C9: when send_code has answered with a failure, the store holds no record
\* under the session id that call generated, then and ever after.
C9_FailedBeginLeavesNothing ==
    /\ \A h \in failedBegin : h \notin DOMAIN active_sessions
    /\ \A c \in Callers :
         (req[c].pc = "done" /\ req[c].kind = "begin" /\ ~req[c].res.success
             /\ req[c].sid # 0)
         => req[c].sid \notin DOMAIN active_sessions

\* C10: a verify_code that ends with "Invalid verification code" or
\* "Verification code expired" returns at once and leaves the store, the
\* connection and the login stage as they were, so the session can be retried.
C10_RejectedCodeRetained ==
    [][\A c \in Callers :
         (task[c].kind = "verify" /\ task[c].pos = "await_signin"
             /\ task'[c].pos # "await_signin"
             /\ task'[c].res \in {Err(MsgInvalidCode), Err(MsgCodeExpired)})
         => /\ task'[c].pos = "done"
            /\ active_sessions' = active_sessions
            /\ conn' = conn
            /\ stage' = stage
            /\ discPending' = discPending]_vars

\* C10 happens: after MaxRetries rejected codes the session string of the
\* handle is returned to a caller.
C10_Witness ==
    \E c \in Callers :
        /\ req[c].pc = "done"
        /\ req[c].kind = "verify"
        /\ CarriesCredential(req[c].res)
        /\ rejected[req[c].sid] = MaxRetries

\* C11: a sign_in(password) that fails on a session that awaits its password
\* is answered "Invalid 2FA password" at once and leaves the store, the
\* connection and the login stage as they were, so the password can be retried.
C11_WrongPasswordRetained ==
    [][\A c \in Callers :
         (task[c].kind = "submit" /\ task[c].pos = "await_signin"
             /\ task'[c].pos # "await_signin"
             /\ conn[task[c].client] = "connected"
             /\ stage[task[c].client] = "needPassword"
             /\ ~CarriesCredential(task'[c].res)
             /\ task'[c].res # Err(MsgExport2FA))
         => /\ task'[c].pos = "done"
            /\ task'[c].res = Err(MsgInvalid2FA)
            /\ active_sessions' = active_sessions
            /\ conn' = conn
            /\ stage' = stage
            /\ discPending' = discPending]_vars

\* C11 happens: a submit_2fa returns the session string of a session whose
\* password had been refused before.
C11_Witness ==
    \E c \in Callers :
        /\ req[c].pc = "done"
        /\ req[c].kind = "submit"
        /\ CarriesCredential(req[c].res)
        /\ req[c].sid \in wrongPw

\* C12: a verify_code whose sign_in raises SessionPasswordNeededError answers
\* "2FA password required" without a session string, keeps the record and the
\* connection, and leaves the session awaiting its password; while a session
\* awaits its password only a submit_2fa exports its session string.
C12_SecondFactorRequired ==
    [][\A c \in Callers :
         /\ (task[c].kind = "verify" /\ task[c].pos = "await_signin"
                /\ task'[c].res = Err(Msg2FARequired))
            => /\ task'[c].pos = "done"
               /\ active_sessions' = active_sessions
               /\ conn' = conn
               /\ discPending' = discPending
               /\ stage'[task[c].client] = "needPassword"
         /\ (task[c].pos = "await_signin" /\ stage[task[c].client] = "needPassword"
                /\ CarriesCredential(task'[c].res))
            => task[c].kind = "submit"]_vars

\* C12 happens: verify_code has answered "2FA password required" and the
\* session is in the store, connected, awaiting the password.
C12_Witness ==
    \E c \in Callers :
        /\ req[c].pc = "done"
        /\ req[c].kind = "verify"
        /\ req[c].res = Err(Msg2FARequired)
        /\ req[c].sid \in DOMAIN active_sessions
        /\ conn[active_sessions[req[c].sid].client] = "connected"
        /\ stage[active_sessions[req[c].sid].client] = "needPassword"

\* C13: when the wait of verify_code or submit_2fa times out, the caller gets
\* an error, and the step neither removes the record, nor disconnects the
\* client, nor cancels the coroutine.
C13_TimeoutLeavesSession ==
    [][\A c \in Callers :
         (req[c].pc = "wait" /\ req[c].kind \in {"verify", "submit"}
             /\ task[c].pos # "done" /\ req'[c].pc # "wait")
         => /\ req'[c].pc = "done"
            /\ req'[c].res = Err(TimeoutMsg(req[c].kind))
            /\ active_sessions' = active_sessions
            /\ conn' = conn
            /\ discPending' = discPending
            /\ task' = task]_vars

\* C13 happens: a coroutine whose caller has timed out went on, exported the
\* session string and removed the record.
C13_Witness ==
    \E c \in Callers :
        /\ req[c].pc # "wait"
        /\ task[c].kind \in {"verify", "submit"}
        /\ task[c].pos = "done"
        /\ CarriesCredential(task[c].res)
        /\ task[c].sid \notin DOMAIN active_sessions

\* C14: every handler starts with the sweep; the sweep collects the records
\* older than TTL (a record of age TTL exactly is not one), and when it is
\* done with such a record the record is out of the store and its client is
\* disconnected, while every other record is as it was.
C14_SweepRemovesExpired ==
    [][\A c \in Callers :
         /\ (req[c].pc = "idle" /\ req'[c].pc # "idle") => req'[c].pc = "iter"
         /\ (req[c].pc = "iter" /\ req'[c].pc = "sweep")
            => req'[c].expired = {h \in DOMAIN active_sessions :
                                    now - active_sessions[h].created_at > TTL}
         /\ (req[c].pc = "sweep_del" /\ req'[c].pc = "sweep")
            => /\ req[c].cur \notin DOMAIN active_sessions'
               /\ \A h \in DOMAIN active_sessions :
                    IF h = req[c].cur
                    THEN conn[active_sessions[h].client] = "closed"
                    ELSE h \in DOMAIN active_sessions'
                         /\ active_sessions'[h] = active_sessions[h]]_vars

\* C15: cleanup_session on a session id that is not in the store changes
\* nothing and raises nothing; a del of a record that a racing cleanup has
\* already deleted ends normally too; and a cleanup removes the one record it
\* was called for and leaves every other record as it was.
C15_CleanupIdempotent ==
    [][\A c \in Callers :
         /\ (req[c].pc = "cleanup_get" /\ req[c].cur \notin DOMAIN active_sessions
                /\ req'[c] # req[c])
            => /\ req'[c].pc = "done"
               /\ req'[c].res = req[c].res
               /\ active_sessions' = active_sessions
               /\ discPending' = discPending
               /\ conn' = conn
         /\ (req[c].pc \in {"sweep_del", "cleanup_del"} /\ req'[c] # req[c])
            => /\ req'[c].pc = (IF req[c].pc = "sweep_del" THEN "sweep" ELSE "done")
               /\ req'[c].res = req[c].res
               /\ DOMAIN active_sessions' = DOMAIN active_sessions \ {req[c].cur}
               /\ \A h \in DOMAIN active_sessions' :
                    active_sessions'[h] = active_sessions[h]
         /\ (task[c].pos = "blocked" /\ task'[c] # task[c])
            => /\ task'[c].pos = "done"
               /\ task'[c].res = task[c].res
               /\ DOMAIN active_sessions' = DOMAIN active_sessions \ {task[c].sid}
               /\ \A h \in DOMAIN active_sessions' :
                    active_sessions'[h] = active_sessions[h]]_vars

\* C15 happens: a cleanup is at its del and a racing cleanup has already
\* deleted the record.
C15_Witness ==
    \E c \in Callers :
        /\ req[c].pc \in {"sweep_del", "cleanup_del"}
        /\ req[c].cur \notin DOMAIN active_sessions

\* C16: when the coroutine of verify_code ends with a failure other than an
\* invalid or expired code or a required password ("Verification failed" or
\* a failed export), or that of submit_2fa with a failed export, the record
\* is out of the store and the client is disconnected.
C16_OtherFailuresDestroy ==
    \A c \in Callers :
        (task[c].pos = "done"
            /\ task[c].res \in {Err(MsgVerifyFailed), Err(MsgExportCode), Err(MsgExport2FA)})
        => /\ task[c].sid \notin DOMAIN active_sessions
           /\ conn[task[c].client] = "closed"

\* C17: while a sign_in on the client of a session is pending, the record of
\* the session is in the store, its client is connected, and no cleanup of the
\* session is under way (no disconnect scheduled, no del about to run).
C17_NoCleanupRace ==
    \A c \in Callers :
        task[c].pos = "await_signin"
        => /\ task[c].sid \in DOMAIN active_sessions
           /\ conn[task[c].client] = "connected"
           /\ task[c].client \notin discPending
           /\ \A d \in Callers :
                req[d].pc \in {"sweep_del", "cleanup_del"} => req[d].cur # task[c].sid

\* C18: the response of every request is one of the dictionaries of the
\* handlers: no exception leaves a handler.
C18_NoException ==
    \A c \in Callers : req[c].res.error \notin {RuntimeError, KeyError}

\* C19: created_at is written when the record is created and never again: a
\* step leaves the fields of every record it keeps as they were, or it is the
\* passing of time, which ages every record alike; no attempt that keeps the
\* session makes its record younger.
C19_CreatedAtImmutable ==
    [][/\ \A h \in DOMAIN active_sessions' \ DOMAIN active_sessions :
            active_sessions'[h].created_at = now
       /\ \A h \in DOMAIN active_sessions \cap DOMAIN active_sessions' :
            /\ active_sessions'[h].client = active_sessions[h].client
            /\ \/ active_sessions'[h].created_at = active_sessions[h].created_at
               \/ /\ active_sessions'[h].created_at < active_sessions[h].created_at
                  /\ task' = task
                  /\ conn' = conn
                  /\ stage' = stage]_vars

\* C19 happens: an attempt that keeps the session has just ended on a record
\* that is no longer new, and the record still has its age.
C19_Witness ==
    \E c \in Callers :
        /\ task[c].pos = "done"
        /\ task[c].res \in {Err(MsgInvalidCode), Err(MsgCodeExpired),
                             Err(Msg2FARequired), Err(MsgInvalid2FA)}
        /\ task[c].sid \in DOMAIN active_sessions
        /\ active_sessions[task[c].sid].created_at < now

\* The request threads and coroutines that take a step and work on session h.
ActsOn(h) ==
    \E c \in Callers :
        /\ req'[c] # req[c] \/ task'[c] # task[c]
        /\ req[c].sid = h \/ task[c].sid = h \/ req'[c].sid = h

\* C20: a client belongs to one record; a coroutine uses the client of the
\* session it was called for; and the record, the connection and the login
\* stage of a session within its TTL change only in a step of a request on
\* that session (or in the disconnect that a cleanup of it scheduled), never
\* in a step of a request on another session.
C20_SessionIsolation ==
    [][/\ \A g, h \in DOMAIN active_sessions :
            active_sessions[g].client = active_sessions[h].client => g = h
       /\ \A c \in Callers, h \in DOMAIN active_sessions :
            task'[c].client = active_sessions[h].client => task'[c].sid = h
       /\ \A h \in DOMAIN active_sessions :
            LET cl == active_sessions[h].client IN
            (~IsExpired(active_sessions[h].created_at, now) /\ ~ActsOn(h))
            => /\ h \in DOMAIN active_sessions'
               /\ active_sessions'[h].client = cl
               /\ stage'[cl] = stage[cl]
               /\ cl \in discPending' => cl \in discPending
               /\ conn'[cl] # conn[cl] => cl \in discPending]_vars

\* C20 happens: a coroutine has finished its work on one session while the
\* record of another session, within its TTL, is in the store and connected.
C20_Witness ==
    \E c \in Callers, g \in DOMAIN active_sessions :
        /\ task[c].pos = "done"
        /\ task[c].kind \in {"verify", "submit"}
        /\ task[c].client # 0
        /\ g # task[c].sid
        /\ ~IsExpired(active_sessions[g].created_at, now)
        /\ conn[active_sessions[g].client] = "connected"

\* C21: send_code never stores a record under a session id that is in the
\* store: a coroutine of send_code whose session id is taken fails and leaves
\* the record of that id, with its client, as it was.
C21_NoOverwrite ==
    [][\A c \in Callers :
         (task[c].kind = "begin" /\ task[c].pos = "await_sendcode"
             /\ task[c].sid \in DOMAIN active_sessions /\ task'[c] # task[c])
         => /\ ~task'[c].res.success
            /\ task[c].sid \in DOMAIN active_sessions'
            /\ active_sessions'[task[c].sid] = active_sessions[task[c].sid]]_vars

\* C22: the loop thread never waits for a result that only the loop itself
\* can produce: no coroutine is ever blocked in run_async, so the coroutines
\* of other requests are never held up by a cleanup.
C22_WorkerNeverWaitsOnItself ==
    \A c \in Callers : task[c].pos # "blocked"

\* C23: under Fairness every record that is in the store is removed from it
\* at some later time, by an export or by the sweep of a request that comes
\* after the record has passed its TTL; this holds also for the record that
\* a send_code stored after its caller had been answered with a timeout.
C23_EventuallyDestroyed ==
    \A h \in Sessions :
        (h \in DOMAIN active_sessions) ~> (h \notin DOMAIN active_sessions)

\* C23 happens: the sweep of a request is about to delete the record of a
\* send_code that had answered its caller with a failure.
C23_Witness ==
    \E c \in Callers :
        /\ req[c].pc = "sweep_del"
        /\ req[c].cur \in failedBegin
        /\ req[c].cur \in DOMAIN active_sessions

====
